---- MODULE Spec2Model ----
(***************************************************************************)
(* A model of halfa/teleport:                                              *)
(*   - package state: CachingAuthClient, a read-through cache in front of  *)
(*     an auth.AccessPoint with a 10 second backoff after upstream errors; *)
(*   - package ansible: bufferLabels/trimTrailingPort, the label grouping  *)
(*     behind DynamicInventoryList and StaticInventory.                    *)
(* Time is counted in whole seconds.  Lists are sequences, a nil slice is  *)
(* the empty sequence, strings that the code takes apart are sequences of  *)
(* one-character strings.                                                  *)
(***************************************************************************)
EXTENDS Integers, Sequences, FiniteSets, TLC

(***************************************************************************)
(* Bounds and input sets                                                   *)
(***************************************************************************)

\* const backoffDuration = time.Second * 10
backoffDuration == 10

\* The zero time.Time (lastErrorTime before any failure).
ZeroTime == 0

\* The wall clock when the process starts: long after ZeroTime + backoffDuration.
StartTime == ZeroTime + backoffDuration + 1

\* How many seconds of the run are explored.
MaxElapsed == 10

MaxTime == StartTime + MaxElapsed

\* The time that passes between two calls: just less than the backoff, or all of it.
TickSteps == {backoffDuration - 1, backoffDuration}

DomainNames == {"example.com", "example.org"}

NsNames == {"default", "dev"}

NamespaceLists == {<<"default">>, <<"default", "dev">>}

NodeLists == {<<"n1">>, <<"n1", "n2">>}

ProxyLists == {<<"p1">>, <<"p1", "p2">>}

UserLists == {<<"alice">>, <<"alice", "bob">>}

UserCA == "user"

HostCA == "host"

CertAuthTypes == {UserCA, HostCA}

Servers == {"s1"}

\* What the upstream answers to GetCertAuthorities(ct, loadKeys): the
\* authorities of that type, with their signing keys iff loadKeys.
CertAuthorities(ct, loadKeys) == <<[Type |-> ct, HasKeys |-> loadKeys]>>

\* An upstream answer (value, error); a failing call answers (zero value, err).
Ok(v) == [err |-> FALSE, val |-> v]

Failed(zero) == [err |-> TRUE, val |-> zero]

Answers(vals, zero) == {Ok(v) : v \in vals} \cup {Failed(zero)}

(***************************************************************************)
(* State                                                                   *)
(***************************************************************************)
VARIABLES
    phase,          \* "init" before NewCachingAuthClient, then "ready" or "failed"
    now,            \* time.Now()
    lastErrorTime,  \* cs.lastErrorTime
    domainName,     \* cs.domainName
    namespaces,     \* cs.namespaces
    nodes,          \* cs.nodes
    proxies,        \* cs.proxies
    users,          \* cs.users
    userCAs,        \* cs.userCAs
    hostCAs,        \* cs.hostCAs
    last,           \* the last call made on the client and what it returned
    invNodes,       \* the nodes []services.Server given to the inventory functions
    inventory,      \* what DynamicInventoryList has built from them
    mutex,          \* cs.Mutex: the goroutine holding it, or "free"
    calls           \* per goroutine: the call it is in, and where in it

slots == <<domainName, namespaces, nodes, proxies, users, userCAs, hostCAs>>

client == <<phase, now, lastErrorTime, domainName, namespaces, nodes, proxies,
            users, userCAs, hostCAs, last>>

vars == <<client, invNodes, inventory, mutex, calls>>

\* The goroutines that call the client concurrently.
Procs == {"g1", "g2"}

Idle == [pc |-> "idle"]

NoGoroutines ==
    /\ mutex = "free"
    /\ calls = [g \in Procs |-> Idle]

NoCall == [op |-> "none"]

NoInventory == [done |-> FALSE]

NoClient ==
    /\ phase = "init"
    /\ now = StartTime
    /\ lastErrorTime = ZeroTime
    /\ domainName = ""
    /\ namespaces = <<>>
    /\ nodes = [n \in NsNames |-> <<>>]
    /\ proxies = <<>>
    /\ users = <<>>
    /\ userCAs = <<>>
    /\ hostCAs = <<>>
    /\ last = NoCall

Init ==
    /\ NoClient
    /\ invNodes = <<>>
    /\ inventory = NoInventory
    /\ NoGoroutines

(***************************************************************************)
(* NewCachingAuthClient                                                    *)
(***************************************************************************)

Range(s) == {s[i] : i \in 1..Len(s)}

\* What the upstream would answer to each load of the constructor.
Plans ==
    [dn  : Answers(DomainNames, ""),
     ns  : Answers(NamespaceLists, <<>>),
     nd  : [NsNames -> Answers(NodeLists, <<>>)],
     px  : Answers(ProxyLists, <<>>),
     us  : Answers(UserLists, <<>>),
     uca : Answers({CertAuthorities(UserCA, FALSE)}, <<>>),
     hca : Answers({CertAuthorities(HostCA, FALSE)}, <<>>)]

\* The constructor returns at the first load that fails.
ctorFailedLenient(plan) ==
    \/ plan.dn.err
    \/ plan.ns.err
    \/ \E i \in 1..Len(plan.ns.val) : plan.nd[plan.ns.val[i]].err
    \/ plan.px.err
    \/ plan.uca.err
    \/ plan.hca.err

ctorFailed(plan) ==
    \/ plan.dn.err
    \/ plan.ns.err
    \/ \E i \in 1..Len(plan.ns.val) : plan.nd[plan.ns.val[i]].err
    \/ plan.px.err
    \/ plan.us.err
    \/ plan.uca.err
    \/ plan.hca.err

\* The nodes map filled by the loop over the listed namespaces.
ctorNodes(plan) ==
    [n \in NsNames |-> IF n \in Range(plan.ns.val) THEN plan.nd[n].val ELSE <<>>]

\* The struct literal: it sets no namespaces field, which stays nil.
NewCachingAuthClient(plan) ==
    /\ phase = "init"
    /\ IF ctorFailed(plan)
       THEN /\ phase' = "failed"
            /\ UNCHANGED slots
       ELSE /\ phase' = "ready"
            /\ domainName' = plan.dn.val
            /\ namespaces' = <<>>
            /\ nodes' = ctorNodes(plan)
            /\ proxies' = plan.px.val
            /\ users' = plan.us.val
            /\ userCAs' = plan.uca.val
            /\ hostCAs' = plan.hca.val
    /\ last' = [op |-> "NewCachingAuthClient", plan |-> plan,
                client |-> (phase' = "ready"), err |-> (phase' = "failed")]
    /\ UNCHANGED <<now, lastErrorTime, invNodes, inventory, mutex, calls>>

(***************************************************************************)
(* The methods of a constructed client.  A step is one statement of the    *)
(* method or of try, so that the unlocked accesses of try and of the       *)
(* return statements interleave with the steps of another goroutine and    *)
(* with the clock.                                                         *)
(***************************************************************************)

tooSoonInclusive(let, t) == let + backoffDuration >= t

tooSoonLatched(let, t) == let > ZeroTime

tooSoonShort(let, t) == let + backoffDuration > t + 1

\* cs.lastErrorTime.Add(backoffDuration).After(time.Now())
tooSoon(let, t) == let + backoffDuration > t

ReadOps == {"GetDomainName", "GetNamespaces", "GetNodes", "GetProxies",
            "GetUsers", "GetCertAuthorities"}

UpsertOps == {"UpsertNode", "UpsertProxy"}

\* The calls a goroutine may make: <<method, arguments>>.
Invocations ==
    {<<"GetDomainName", <<>>>>, <<"GetNamespaces", <<>>>>,
     <<"GetProxies", <<>>>>, <<"GetUsers", <<>>>>}
    \cup {<<"GetNodes", <<namespace>>>> : namespace \in NsNames}
    \cup {<<"GetCertAuthorities", <<ct, loadKeys>>>> :
             ct \in CertAuthTypes, loadKeys \in BOOLEAN}
    \cup {<<"UpsertNode", <<s>>>> : s \in Servers}
    \cup {<<"UpsertProxy", <<s>>>> : s \in Servers}

\* The argument lists the method op is called with.
Asked(op) == {inv[2] : inv \in {i \in Invocations : i[1] = op}}

\* What the upstream may answer to a read.
AnswersFor(op, arg) ==
    CASE op = "GetDomainName" -> Answers(DomainNames, "")
      [] op = "GetNamespaces" -> Answers(NamespaceLists, <<>>)
      [] op = "GetNodes" -> Answers(NodeLists, <<>>)
      [] op = "GetProxies" -> Answers(ProxyLists, <<>>)
      [] op = "GetUsers" -> Answers(UserLists, <<>>)
      [] op = "GetCertAuthorities" ->
            Answers({CertAuthorities(arg[1], arg[2])}, <<>>)

\* The cache field the read method op(arg) is about.
Cached(op, arg) ==
    CASE op = "GetDomainName" -> domainName
      [] op = "GetNamespaces" -> namespaces
      [] op = "GetNodes" -> nodes[arg[1]]
      [] op = "GetProxies" -> proxies
      [] op = "GetUsers" -> users
      [] op = "GetCertAuthorities" -> IF arg[1] = UserCA THEN userCAs ELSE hostCAs

\* A client after a successful construction, with or without a read that
\* has just failed.
InitReady ==
    /\ phase = "ready"
    /\ now = StartTime
    /\ lastErrorTime \in {ZeroTime, StartTime}
    /\ domainName = "example.com"
    /\ namespaces = <<>>
    /\ nodes = [n \in NsNames |-> IF n = "default" THEN <<"n1">> ELSE <<>>]
    /\ proxies = <<"p1">>
    /\ users = <<"alice">>
    /\ userCAs = CertAuthorities(UserCA, FALSE)
    /\ hostCAs = CertAuthorities(HostCA, FALSE)
    /\ last = NoCall
    /\ invNodes = <<>>
    /\ inventory = NoInventory
    /\ NoGoroutines

Goto(g, pc) == calls' = [calls EXCEPT ![g].pc = pc]

\* The goroutines whose upstream read call has been made, and those whose
\* locked write has been made: a call records its place in either order in
\* seq and wseq (0: not yet).
Issued == {h \in Procs : calls[h].pc # "idle" /\ calls[h].seq > 0}

Written == {h \in Procs : calls[h].pc # "idle" /\ calls[h].wseq > 0}

\* A goroutine enters a method: a read starts in try, an upsert goes
\* straight to the upstream.  before is what the read's cache field holds
\* when the method is entered.  ans and val are empty until the upstream has
\* answered and the method has returned; then they hold the answer and the
\* value returned.
Invoke(g, op, arg) ==
    /\ phase = "ready"
    /\ calls[g].pc = "idle"
    /\ calls' = [calls EXCEPT ![g] =
                    [pc |-> IF op \in UpsertOps THEN "upsert" ELSE "gate",
                     op |-> op, arg |-> arg, called |-> FALSE, ans |-> <<>>,
                     t |-> ZeroTime, val |-> <<>>, err |-> FALSE,
                     upcalls |-> 0, seq |-> 0, wseq |-> 0,
                     before |-> IF op \in ReadOps THEN <<Cached(op, arg)>>
                                ELSE <<>>]]
    /\ UNCHANGED <<client, invNodes, inventory, mutex>>

\* func (cs *CachingAuthClient) GetDomainName(): the call is entered
GetDomainName(g) == Invoke(g, "GetDomainName", <<>>)

GetNamespaces(g) == Invoke(g, "GetNamespaces", <<>>)

GetNodes(g, namespace) == Invoke(g, "GetNodes", <<namespace>>)

GetProxies(g) == Invoke(g, "GetProxies", <<>>)

GetCertAuthorities(g, ct, loadKeys) ==
    Invoke(g, "GetCertAuthorities", <<ct, loadKeys>>)

GetUsers(g) == Invoke(g, "GetUsers", <<>>)

UpsertNode(g, s) == Invoke(g, "UpsertNode", <<s>>)

UpsertProxy(g, s) == Invoke(g, "UpsertProxy", <<s>>)

\* try: the read of cs.lastErrorTime in
\* cs.lastErrorTime.Add(backoffDuration).After(time.Now()), without the mutex
ReadLastErrorTime(g) ==
    /\ calls[g].pc = "gate"
    /\ calls' = [calls EXCEPT ![g].t = lastErrorTime, ![g].pc = "decide"]
    /\ UNCHANGED <<client, invNodes, inventory, mutex>>

GateExtending(g) ==
    /\ calls[g].pc = "decide"
    /\ IF tooSoon(calls[g].t, now)
       THEN Goto(g, "return") /\ lastErrorTime' = now
       ELSE Goto(g, "upstream") /\ lastErrorTime' = lastErrorTime
    /\ UNCHANGED <<phase, now, slots, last, invNodes, inventory, mutex>>

\* try: time.Now() and the comparison; if tooSoon, return without calling f.
Gate(g) ==
    /\ calls[g].pc = "decide"
    /\ Goto(g, IF tooSoon(calls[g].t, now) THEN "return" ELSE "upstream")
    /\ UNCHANGED <<client, invNodes, inventory, mutex>>

\* f: the upstream call cs.ap.GetXxx(...), which answers ans, and the test
\* err == nil.
Answered(g, ans) ==
    calls' = [calls EXCEPT ![g].called = TRUE, ![g].ans = <<ans>>,
                           ![g].upcalls = @ + 1,
                           ![g].seq = Cardinality(Issued) + 1,
                           ![g].pc = IF ans.err THEN "failed" ELSE "lock"]

Upstream(g) ==
    /\ calls[g].pc = "upstream"
    /\ \E ans \in AnswersFor(calls[g].op, calls[g].arg) : Answered(g, ans)
    /\ UNCHANGED <<client, invNodes, inventory, mutex>>

\* f: cs.Lock()
Lock(g) ==
    /\ calls[g].pc = "lock"
    /\ mutex = "free"
    /\ mutex' = g
    /\ Goto(g, "write")
    /\ UNCHANGED <<client, invNodes, inventory>>

\* The cache field a read method is about: calls of one method share it,
\* GetCertAuthorities calls if they name the same kind.
SlotKey(op, arg) ==
    IF op = "GetCertAuthorities" THEN <<op, arg[1]>>
    ELSE IF op = "GetNodes" THEN <<op, arg[1]>>
    ELSE <<op>>

StoreOneSlot(op, arg, v) ==
    /\ domainName' = IF op = "GetDomainName" THEN v ELSE domainName
    /\ namespaces' = IF op = "GetNamespaces" THEN v ELSE namespaces
    /\ nodes' = IF op = "GetNodes" THEN [nodes EXCEPT ![arg[1]] = v] ELSE nodes
    /\ proxies' = IF op = "GetProxies" THEN v ELSE proxies
    /\ users' = IF op = "GetUsers" THEN v ELSE users
    /\ userCAs' = IF op = "GetCertAuthorities" THEN v ELSE userCAs
    /\ hostCAs' = hostCAs

\* cs.xxx = v for the method op(arg).
Store(op, arg, v) ==
    /\ domainName' = IF op = "GetDomainName" THEN v ELSE domainName
    /\ namespaces' = IF op = "GetNamespaces" THEN v ELSE namespaces
    /\ nodes' = IF op = "GetNodes" THEN [nodes EXCEPT ![arg[1]] = v] ELSE nodes
    /\ proxies' = IF op = "GetProxies" THEN v ELSE proxies
    /\ users' = IF op = "GetUsers" THEN v ELSE users
    /\ userCAs' = IF op = "GetCertAuthorities" /\ arg[1] = UserCA
                  THEN v ELSE userCAs
    /\ hostCAs' = IF op = "GetCertAuthorities" /\ arg[1] # UserCA
                  THEN v ELSE hostCAs

WriteUnlessStale(g) ==
    /\ calls[g].pc = "write"
    /\ IF \E h \in Written :
              /\ SlotKey(calls[h].op, calls[h].arg) = SlotKey(calls[g].op, calls[g].arg)
              /\ calls[h].seq > calls[g].seq
       THEN UNCHANGED slots
       ELSE Store(calls[g].op, calls[g].arg, calls[g].ans[1].val)
    /\ calls' = [calls EXCEPT ![g].pc = "unlock", ![g].wseq = Cardinality(Written) + 1]
    /\ UNCHANGED <<phase, now, lastErrorTime, last, invNodes, inventory, mutex>>

WriteSkipped(g) ==
    /\ calls[g].pc = "write"
    /\ UNCHANGED slots
    /\ calls' = [calls EXCEPT ![g].pc = "unlock", ![g].wseq = Cardinality(Written) + 1]
    /\ UNCHANGED <<phase, now, lastErrorTime, last, invNodes, inventory, mutex>>

\* f: cs.xxx = value
Write(g) ==
    /\ calls[g].pc = "write"
    /\ Store(calls[g].op, calls[g].arg, calls[g].ans[1].val)
    /\ calls' = [calls EXCEPT ![g].pc = "unlock", ![g].wseq = Cardinality(Written) + 1]
    /\ UNCHANGED <<phase, now, lastErrorTime, last, invNodes, inventory, mutex>>

UnlockForgotten(g) ==
    /\ calls[g].pc = "unlock"
    /\ Goto(g, "return")
    /\ UNCHANGED <<client, invNodes, inventory, mutex>>

\* f: the deferred cs.Unlock(), then return err (nil)
Unlock(g) ==
    /\ calls[g].pc = "unlock"
    /\ mutex' = "free"
    /\ Goto(g, "return")
    /\ UNCHANGED <<client, invNodes, inventory>>

ErrorTimeClearing(g) ==
    /\ calls[g].pc = "failed"
    /\ calls' = [calls EXCEPT ![g].t = now, ![g].pc = "seterr"]
    /\ Store(calls[g].op, calls[g].arg, calls[g].ans[1].val)
    /\ UNCHANGED <<phase, now, lastErrorTime, last, invNodes, inventory, mutex>>

\* try, f failed: the time.Now() of cs.lastErrorTime = time.Now()
ErrorTime(g) ==
    /\ calls[g].pc = "failed"
    /\ calls' = [calls EXCEPT ![g].t = now, ![g].pc = "seterr"]
    /\ UNCHANGED <<client, invNodes, inventory, mutex>>

\* try, f failed: the store of cs.lastErrorTime = time.Now(), without the mutex
SetLastErrorTime(g) ==
    /\ calls[g].pc = "seterr"
    /\ lastErrorTime' = calls[g].t
    /\ Goto(g, "return")
    /\ UNCHANGED <<phase, now, slots, last, invNodes, inventory, mutex>>

ReturnSurfacing(g) ==
    /\ calls[g].pc = "return"
    /\ calls' = [calls EXCEPT
                    ![g].pc = "done",
                    ![g].err = IF calls[g].called THEN calls[g].ans[1].err ELSE FALSE,
                    ![g].val = IF calls[g].op = "GetNodes"
                               THEN <<IF calls[g].called THEN calls[g].ans[1].val
                                      ELSE <<>>>>
                               ELSE <<Cached(calls[g].op, calls[g].arg)>>]
    /\ UNCHANGED <<client, invNodes, inventory, mutex>>

\* return cs.xxx, nil, read without the mutex (GetNodes: return nsNodes, nil)
Return(g) ==
    /\ calls[g].pc = "return"
    /\ calls' = [calls EXCEPT
                    ![g].pc = "done",
                    ![g].err = FALSE,
                    ![g].val = IF calls[g].op = "GetNodes"
                               THEN <<IF calls[g].called THEN calls[g].ans[1].val
                                      ELSE <<>>>>
                               ELSE <<Cached(calls[g].op, calls[g].arg)>>]
    /\ UNCHANGED <<client, invNodes, inventory, mutex>>

UpsertSwallowing(g, uperr) ==
    /\ calls[g].pc = "upsert"
    /\ calls' = [calls EXCEPT ![g].pc = "done", ![g].called = TRUE,
                              ![g].upcalls = @ + 1,
                              ![g].ans = <<[err |-> uperr, val |-> <<>>]>>,
                              ![g].err = FALSE]
    /\ UNCHANGED <<client, invNodes, inventory, mutex>>

UpsertGated(g, uperr) ==
    /\ calls[g].pc = "upsert"
    /\ IF tooSoon(lastErrorTime, now)
       THEN /\ Goto(g, "done")
            /\ lastErrorTime' = lastErrorTime
       ELSE /\ calls' = [calls EXCEPT ![g].pc = "done", ![g].called = TRUE,
                                      ![g].upcalls = @ + 1,
                                      ![g].ans = <<[err |-> uperr, val |-> <<>>]>>,
                                      ![g].err = uperr]
            /\ lastErrorTime' = IF uperr THEN now ELSE lastErrorTime
    /\ UNCHANGED <<phase, now, slots, last, invNodes, inventory, mutex>>

\* return cs.ap.UpsertNode(s, ttl) / return cs.ap.UpsertProxy(s, ttl): the
\* upstream call, which answers uperr, and the return of what it answered
Upsert(g, uperr) ==
    /\ calls[g].pc = "upsert"
    /\ calls' = [calls EXCEPT ![g].pc = "done", ![g].called = TRUE,
                              ![g].upcalls = @ + 1,
                              ![g].ans = <<[err |-> uperr, val |-> <<>>]>>,
                              ![g].err = uperr]
    /\ UNCHANGED <<client, invNodes, inventory, mutex>>

\* The caller has its result and goes on to its next call.
Finish(g) ==
    /\ calls[g].pc = "done"
    /\ calls' = [calls EXCEPT ![g] = Idle]
    /\ UNCHANGED <<client, invNodes, inventory, mutex>>

\* The clock advances between calls and while goroutines are inside their
\* calls.
Tick(step) ==
    /\ now + step <= MaxTime
    /\ now' = now + step
    /\ UNCHANGED <<phase, lastErrorTime, slots, last, invNodes, inventory, mutex, calls>>

(***************************************************************************)
(* Construction: NewCachingAuthClient against every upstream.              *)
(***************************************************************************)

NextConstruction == \E plan \in Plans : NewCachingAuthClient(plan)

SpecConstruction == Init /\ [][NextConstruction]_vars

(***************************************************************************)
(* Sequential runs.  One caller makes call after call on a constructed     *)
(* client, each call statement by statement, while the clock advances.     *)
(***************************************************************************)

Caller == "g1"

Next ==
    \/ GetDomainName(Caller)
    \/ GetNamespaces(Caller)
    \/ \E arg \in Asked("GetNodes") : GetNodes(Caller, arg[1])
    \/ GetProxies(Caller)
    \/ \E arg \in Asked("GetCertAuthorities") :
          GetCertAuthorities(Caller, arg[1], arg[2])
    \/ GetUsers(Caller)
    \/ \E arg \in Asked("UpsertNode") : UpsertNode(Caller, arg[1])
    \/ \E arg \in Asked("UpsertProxy") : UpsertProxy(Caller, arg[1])
    \/ ReadLastErrorTime(Caller)
    \/ Gate(Caller)
    \/ Upstream(Caller)
    \/ Lock(Caller)
    \/ Write(Caller)
    \/ Unlock(Caller)
    \/ ErrorTime(Caller)
    \/ SetLastErrorTime(Caller)
    \/ Return(Caller)
    \/ \E uperr \in BOOLEAN : Upsert(Caller, uperr)
    \/ Finish(Caller)
    \/ \E step \in TickSteps : Tick(step)

Spec == InitReady /\ [][Next]_vars

(***************************************************************************)
(* Concurrent callers.  Each goroutine makes one call.                     *)
(***************************************************************************)

NextConcurrent ==
    \/ \E g \in Procs : GetDomainName(g)
    \/ \E g \in Procs : GetNamespaces(g)
    \/ \E g \in Procs, arg \in Asked("GetNodes") : GetNodes(g, arg[1])
    \/ \E g \in Procs : GetProxies(g)
    \/ \E g \in Procs, arg \in Asked("GetCertAuthorities") :
          GetCertAuthorities(g, arg[1], arg[2])
    \/ \E g \in Procs : GetUsers(g)
    \/ \E g \in Procs, arg \in Asked("UpsertNode") : UpsertNode(g, arg[1])
    \/ \E g \in Procs, arg \in Asked("UpsertProxy") : UpsertProxy(g, arg[1])
    \/ \E g \in Procs : ReadLastErrorTime(g)
    \/ \E g \in Procs : Gate(g)
    \/ \E g \in Procs : Upstream(g)
    \/ \E g \in Procs : Lock(g)
    \/ \E g \in Procs : Write(g)
    \/ \E g \in Procs : Unlock(g)
    \/ \E g \in Procs : ErrorTime(g)
    \/ \E g \in Procs : SetLastErrorTime(g)
    \/ \E g \in Procs : Return(g)
    \/ \E g \in Procs, uperr \in BOOLEAN : Upsert(g, uperr)
    \/ \E step \in TickSteps : Tick(step)

SpecConcurrent == InitReady /\ [][NextConcurrent]_vars

\* The statements of goroutine g's call, once it is inside the method.
Proceed(g) ==
    \/ ReadLastErrorTime(g) \/ Gate(g) \/ Upstream(g)
    \/ Lock(g) \/ Write(g) \/ Unlock(g)
    \/ ErrorTime(g) \/ SetLastErrorTime(g) \/ Return(g)
    \/ \E uperr \in BOOLEAN : Upsert(g, uperr)

\* The scheduler runs every goroutine that can run, an upstream call that
\* was made returns, and a goroutine waiting in cs.Lock() gets the mutex once
\* it stays free.
SpecConcurrentFair ==
    SpecConcurrent /\ \A g \in Procs : WF_<<calls[g].pc>>(Proceed(g))

(***************************************************************************)
(* Recovery.  One caller makes read after read on a client whose upstream  *)
(* has recovered: every upstream call succeeds and returns the same value  *)
(* for a category.                                                         *)
(***************************************************************************)

\* The reads the caller makes; the certificate authorities are asked for
\* with their keys, so that what the upstream returns is not what the
\* constructor cached.
RecoveryReads ==
    {inv \in Invocations :
        /\ inv[1] \in ReadOps
        /\ inv[1] = "GetCertAuthorities" => inv[2][2]}

\* What the recovered upstream returns to op(arg).
FreshValue(op, arg) ==
    CASE op = "GetDomainName" -> "example.org"
      [] op = "GetNamespaces" -> <<"default", "dev">>
      [] op = "GetNodes" -> <<"n1", "n2">>
      [] op = "GetProxies" -> <<"p1", "p2">>
      [] op = "GetUsers" -> <<"alice", "bob">>
      [] op = "GetCertAuthorities" -> CertAuthorities(arg[1], arg[2])

\* f: the upstream call, which succeeds.
UpstreamRecovered(g) ==
    /\ calls[g].pc = "upstream"
    /\ Answered(g, Ok(FreshValue(calls[g].op, calls[g].arg)))
    /\ UNCHANGED <<client, invNodes, inventory, mutex>>

\* The time that passes while the caller makes its calls: a second, or the
\* whole backoff.
RecoverySteps == {1, backoffDuration}

ProceedRecovered(g) ==
    \/ ReadLastErrorTime(g) \/ Gate(g) \/ UpstreamRecovered(g)
    \/ Lock(g) \/ Write(g) \/ Unlock(g) \/ Return(g) \/ Finish(g)

NextRecovery ==
    \/ GetDomainName(Caller)
    \/ GetNamespaces(Caller)
    \/ \E arg \in Asked("GetNodes") : GetNodes(Caller, arg[1])
    \/ GetProxies(Caller)
    \/ \E ct \in CertAuthTypes : GetCertAuthorities(Caller, ct, TRUE)
    \/ GetUsers(Caller)
    \/ ReadLastErrorTime(Caller)
    \/ Gate(Caller)
    \/ UpstreamRecovered(Caller)
    \/ Lock(Caller)
    \/ Write(Caller)
    \/ Unlock(Caller)
    \/ Return(Caller)
    \/ Finish(Caller)
    \/ \E step \in RecoverySteps : Tick(step)

\* A call that was entered runs to its return, and time keeps advancing.
SpecRecovery ==
    /\ InitReady
    /\ [][NextRecovery]_vars
    /\ WF_<<calls[Caller].pc>>(ProceedRecovered(Caller))
    /\ WF_now(\E step \in RecoverySteps : Tick(step))

(***************************************************************************)
(* package ansible: the label grouping of the inventory                    *)
(***************************************************************************)

\* The longest list of servers given to the inventory functions.
MaxServers == 3

\* Addresses: a bare host, host:port, and an IPv6 literal with a port.
Addrs ==
    {<<"a">>, <<"b", ":", "2">>, <<"[", ":", ":", "1", "]", ":", "2">>}

\* What GetAllLabels() returns: label -> value, as a set of pairs.
LabelMaps ==
    {{},
     {<<<<"o", "s">>, <<"x">>>>},
     {<<<<"o", "s">>, <<"y">>>>, <<<<"r">>, <<"d">>>>},
     {<<<<"o", "s">>, <<"z">>>>, <<<<"r">>, <<"d">>>>}}

InvServers == [addr : Addrs, labels : LabelMaps]

ServerLists == UNION {[1..k -> InvServers] : k \in 0..MaxServers}

\* strings.Split(nodeAddr, ":")[0]: what precedes the first colon.
trimTrailingPort(nodeAddr) ==
    LET colons == {i \in 1..Len(nodeAddr) : nodeAddr[i] = ":"}
    IN IF colons = {} THEN nodeAddr
       ELSE SubSeq(nodeAddr, 1, (CHOOSE i \in colons : \A j \in colons : i <= j) - 1)

\* labelBuffer[groupName] of a Go map: nil for a missing key.
GroupHosts(labelBuffer, groupName) ==
    IF groupName \in DOMAIN labelBuffer THEN labelBuffer[groupName] ELSE <<>>

\* The inner loop of bufferLabels: one append per label of the node n.  Go
\* ranges over the labels in no fixed order; every order gives the same map.
RECURSIVE addLabels(_, _, _)
addLabels(labelBuffer, labels, n) ==
    IF labels = {} THEN labelBuffer
    ELSE LET l == CHOOSE l \in labels : TRUE
             groupName == l[1] \o <<"-">> \o l[2]
             IP == trimTrailingPort(n.addr)
             appended ==
                 [g \in DOMAIN labelBuffer \cup {groupName} |->
                     IF g = groupName
                     THEN Append(GroupHosts(labelBuffer, groupName), IP)
                     ELSE labelBuffer[g]]
         IN addLabels(appended, labels \ {l}, n)

\* The outer loop of bufferLabels, over nodes[i..].
RECURSIVE bufferFrom(_, _, _)
bufferFrom(labelBuffer, srvs, i) ==
    IF i > Len(srvs) THEN labelBuffer
    ELSE bufferFrom(addLabels(labelBuffer, srvs[i].labels, srvs[i]), srvs, i + 1)

bufferLabels(srvs) == bufferFrom(<<>>, srvs, 1)

\* The inventory map DynamicInventoryList builds before encoding it as JSON.
DynamicInventoryGroups(srvs) ==
    LET hostsByLabels == bufferLabels(srvs)
    IN [labelDashValue \in DOMAIN hostsByLabels |->
           [Hosts |-> hostsByLabels[labelDashValue], Vars |-> <<>>]]

DynamicInventoryList ==
    /\ ~inventory.done
    /\ inventory' = [done |-> TRUE, op |-> "DynamicInventoryList",
                     groups |-> DynamicInventoryGroups(invNodes)]
    /\ UNCHANGED <<client, invNodes, mutex, calls>>

\* StaticInventory prints one [groupName] section per group, the groups in
\* no fixed order: the set of sections.
StaticInventory ==
    /\ ~inventory.done
    /\ inventory' = [done |-> TRUE, op |-> "StaticInventory",
                     sections |-> LET inv == bufferLabels(invNodes)
                                  IN {<<groupName, inv[groupName]>> : groupName \in DOMAIN inv}]
    /\ UNCHANGED <<client, invNodes, mutex, calls>>

InitInventory ==
    /\ NoClient
    /\ invNodes \in ServerLists
    /\ inventory = NoInventory
    /\ NoGoroutines

NextInventory == DynamicInventoryList \/ StaticInventory

SpecInventory == InitInventory /\ [][NextInventory]_vars


(***************************************************************************)
(* Reading the model                                                       *)
(***************************************************************************)

\* The step in which goroutine g goes from pc from to pc to.
Steps(g, from, to) == calls[g].pc = from /\ calls'[g].pc = to

\* The read c has made no successful upstream call: the gate has suppressed
\* it, or the upstream has failed.
FailedOrSuppressed(c) == ~c.called \/ c.ans[1].err

\* The clock is inside the backoff window of the recorded failure.
InWindow ==
    /\ lastErrorTime # ZeroTime
    /\ lastErrorTime < now /\ now < lastErrorTime + backoffDuration

(***************************************************************************)
(* Claims                                                                  *)
(***************************************************************************)

\* C1: a read whose upstream attempt fails or is suppressed returns the value
\* its cache slot held immediately before the call (for GetNodes, nodes[ns]).
C1_StaleValueReturned ==
    [][Steps(Caller, "return", "done") /\ FailedOrSuppressed(calls[Caller])
          => calls'[Caller].val = calls[Caller].before]_vars

\* C2: a read that finds a failure recorded at T and reads the clock at t
\* with T < t < T + 10s makes no upstream call, whatever its category, and
\* one that reads the clock at t >= T + 10s makes one upstream call.
C2_BackoffWindow ==
    [][\A g \in Procs :
          /\ calls[g].pc = "decide" /\ calls'[g].pc # "decide"
                /\ calls[g].t # ZeroTime =>
                /\ (calls[g].t < now /\ now < calls[g].t + backoffDuration
                       => calls'[g].pc = "return")
                /\ (now >= calls[g].t + backoffDuration
                       => calls'[g].pc = "upstream")
          /\ calls[g].pc = "upstream" /\ calls'[g].pc # "upstream" =>
                calls'[g].upcalls = 1
          /\ Steps(g, "return", "done") =>
                calls'[g].upcalls = IF calls[g].called THEN 1 ELSE 0]_vars

\* A read that found the failure of StartTime recorded and read the clock
\* exactly 10s later has made its upstream call.
C2_Witness ==
    \E g \in Procs :
        /\ calls[g].pc = "done" /\ calls[g].op \in ReadOps
        /\ calls[g].called /\ calls[g].upcalls = 1
        /\ ~calls[g].ans[1].err
        /\ calls[g].t = StartTime
        /\ now = StartTime + backoffDuration

\* C3: after NewCachingAuthClient succeeds, every cache slot holds what the
\* upstream returned for its category during construction.
C3_SlotsLoaded ==
    last.op = "NewCachingAuthClient" /\ last.client =>
        /\ domainName = last.plan.dn.val
        /\ namespaces = last.plan.ns.val
        /\ \A n \in Range(last.plan.ns.val) : nodes[n] = last.plan.nd[n].val
        /\ proxies = last.plan.px.val
        /\ users = last.plan.us.val
        /\ userCAs = last.plan.uca.val
        /\ hostCAs = last.plan.hca.val

\* C4: every read returns a nil error, whatever the upstream did.
C4_ReadsNeverFail ==
    \A g \in Procs :
        calls[g].pc = "done" /\ calls[g].op \in ReadOps => ~calls[g].err

\* A read whose upstream call failed has returned.
C4_Witness ==
    \E g \in Procs :
        /\ calls[g].pc = "done" /\ calls[g].op \in ReadOps
        /\ calls[g].called /\ calls[g].ans[1].err
        /\ ~calls[g].err

\* C5: in a sequential run, when a read's upstream attempt is permitted and
\* succeeds with v, the category's slot is v after the call and the call
\* returns v.
C5_RefreshStored ==
    [][/\ Steps(Caller, "return", "done")
       /\ calls[Caller].called /\ ~calls[Caller].ans[1].err
       => /\ calls'[Caller].val = <<calls[Caller].ans[1].val>>
          /\ Cached(calls[Caller].op, calls[Caller].arg)'
                = calls[Caller].ans[1].val]_vars

\* After an earlier refresh of the domain name, a successful GetProxies
\* refresh has returned, and its value is cached.
C5_Witness ==
    /\ calls[Caller].pc = "done" /\ calls[Caller].op = "GetProxies"
    /\ calls[Caller].called /\ ~calls[Caller].ans[1].err
    /\ calls[Caller].val = <<<<"p1", "p2">>>>
    /\ proxies = <<"p1", "p2">>
    /\ domainName = "example.org"

\* C6: UpsertNode and UpsertProxy return exactly the upstream's error and
\* leave every cache slot unchanged.
C6_UpsertPassThrough ==
    [][\A g \in Procs :
          Steps(g, "upsert", "done") =>
              /\ calls'[g].err = calls'[g].ans[1].err
              /\ slots' = slots]_vars

\* An upsert that the upstream rejected has returned the error.
C6_Witness ==
    \E g \in Procs :
        /\ calls[g].pc = "done" /\ calls[g].op = "UpsertNode"
        /\ calls[g].ans[1].err /\ calls[g].err

\* The initial loads the constructor makes, by the answer the upstream gives.
AnyInitialLoadFails(plan) ==
    \/ \E c \in {"dn", "ns", "px", "us", "uca", "hca"} : plan[c].err
    \/ \E n \in Range(plan.ns.val) : plan.nd[n].err

\* C7: NewCachingAuthClient returns an error and no client whenever any one
\* of its initial loads fails, and a client only if all of them succeed.
C7_ConstructionAllOrNothing ==
    last.op = "NewCachingAuthClient" =>
        /\ last.err <=> AnyInitialLoadFails(last.plan)
        /\ last.client <=> ~last.err

\* Construction has failed with the users load the only one to fail.
C7_Witness ==
    /\ last.op = "NewCachingAuthClient" /\ last.err /\ ~last.client
    /\ last.plan.us.err
    /\ \A c \in {"dn", "ns", "px", "uca", "hca"} : ~last.plan[c].err
    /\ \A n \in NsNames : ~last.plan.nd[n].err

\* C8: no step of a GetCertAuthorities call for the host kind changes the
\* user-CA slot, none of a call for the user kind the host-CA slot, and
\* each call returns the slot of the kind asked for.
C8_KindsIndependent ==
    [][\A g \in Procs :
          /\ calls[g].pc # "idle"
          /\ calls[g].op = "GetCertAuthorities"
          /\ calls'[g] # calls[g]
          => /\ IF calls[g].arg[1] = UserCA
                THEN hostCAs' = hostCAs
                ELSE userCAs' = userCAs
             /\ Steps(g, "return", "done") =>
                   calls'[g].val = <<IF calls[g].arg[1] = UserCA
                                     THEN userCAs ELSE hostCAs>>]_vars

\* A host-kind refresh with keys has succeeded and returned the host slot;
\* the user slot is as loaded.
C8_Witness ==
    \E g \in Procs :
        /\ calls[g].pc = "done" /\ calls[g].op = "GetCertAuthorities"
        /\ calls[g].arg = <<HostCA, TRUE>>
        /\ calls[g].called /\ ~calls[g].ans[1].err
        /\ hostCAs = CertAuthorities(HostCA, TRUE)
        /\ calls[g].val = <<hostCAs>>
        /\ userCAs = CertAuthorities(UserCA, FALSE)

\* The label=value pairs carried by at least one server of the list.
PairsOf(srvs) == UNION {srvs[i].labels : i \in 1..Len(srvs)}

\* An address without its trailing ":port": what precedes the last colon.
StripTrailingPort(nodeAddr) ==
    LET colons == {i \in 1..Len(nodeAddr) : nodeAddr[i] = ":"}
    IN IF colons = {} THEN nodeAddr
       ELSE SubSeq(nodeAddr, 1, (CHOOSE i \in colons : \A j \in colons : j <= i) - 1)

\* The subsequence of seq whose indices are in keep, in order.
RECURSIVE Pick(_, _, _)
Pick(seq, keep, i) ==
    IF i > Len(seq) THEN <<>>
    ELSE (IF i \in keep THEN <<seq[i]>> ELSE <<>>) \o Pick(seq, keep, i + 1)

\* The addresses, without a trailing ":port", of the servers carrying pair,
\* in input order.
HostsCarrying(srvs, pair) ==
    LET keep == {i \in 1..Len(srvs) : pair \in srvs[i].labels}
        hosts == [i \in 1..Len(srvs) |-> StripTrailingPort(srvs[i].addr)]
    IN Pick(hosts, keep, 1)

\* The groups of the inventory in inv, whichever function built it:
\* name -> hosts.
GroupsBuilt(inv) ==
    IF inv.op = "DynamicInventoryList"
    THEN [g \in DOMAIN inv.groups |-> inv.groups[g].Hosts]
    ELSE [g \in {sec[1] : sec \in inv.sections} |->
             (CHOOSE sec \in inv.sections : sec[1] = g)[2]]

\* C9: the grouping has exactly one group "<label>-<value>" for each
\* label=value pair carried by a server; its hosts are the addresses, any
\* trailing ":port" removed, of exactly the servers carrying the pair, in
\* input order; every group's variables map is empty.
C9_LabelGroups ==
    inventory.done =>
        LET groups == GroupsBuilt(inventory)
        IN /\ DOMAIN groups = {p[1] \o <<"-">> \o p[2] : p \in PairsOf(invNodes)}
           /\ \A p \in PairsOf(invNodes) :
                 groups[p[1] \o <<"-">> \o p[2]] = HostsCarrying(invNodes, p)
           /\ inventory.op = "DynamicInventoryList" =>
                 \A g \in DOMAIN inventory.groups : inventory.groups[g].Vars = <<>>

\* C10: under any interleaving of concurrent reads, lastErrorTime never
\* decreases: every write stores a time >= the value it replaces.
C10_FailureClockMonotonic == [][lastErrorTime' >= lastErrorTime]_vars

\* C11: every write to lastErrorTime, every write to a cache slot and every
\* read of a cache slot that is returned to a caller is made by a goroutine
\* that holds the client's mutex.
C11_AccessesUnderMutex ==
    [][\A g \in Procs :
          /\ Steps(g, "seterr", "return") => mutex = g
          /\ Steps(g, "write", "unlock") => mutex = g
          /\ Steps(g, "return", "done") /\ calls[g].op # "GetNodes" => mutex = g]_vars

\* C12: lastErrorTime changes only in the step of a read whose upstream
\* attempt was made and returned an error; no step of a read whose attempt
\* succeeded or was suppressed changes it.
C12_FailureClockFrame ==
    [][/\ lastErrorTime' # lastErrorTime =>
             \E g \in Procs :
                 /\ Steps(g, "seterr", "return")
                 /\ calls[g].op \in ReadOps
                 /\ calls[g].called /\ calls[g].ans[1].err
       /\ \A g \in Procs :
             /\ calls[g].pc # "idle"
             /\ calls'[g] # calls[g]
             /\ ~(calls'[g].called /\ calls'[g].ans[1].err)
             => lastErrorTime' = lastErrorTime]_vars

\* A read inside the window of an earlier failure has been suppressed, and
\* the failure is still recorded at its own time.
C12_Witness ==
    \E g \in Procs :
        /\ calls[g].pc = "done" /\ calls[g].op \in ReadOps
        /\ ~calls[g].called
        /\ calls[g].t = lastErrorTime
        /\ InWindow

\* C13: UpsertNode and UpsertProxy are not gated: the one step of an upsert
\* makes one upstream call, inside the backoff window too, and no step of an
\* upsert changes lastErrorTime, whether the upstream accepts or rejects it.
C13_UpsertsNotGated ==
    [][\A g \in Procs :
          calls'[g].pc # "idle" /\ calls'[g].op \in UpsertOps =>
              /\ calls'[g].pc \in {"upsert", "done"}
              /\ calls'[g].pc = "done" =>
                    calls'[g].called /\ calls'[g].upcalls = 1
              /\ calls'[g] # calls[g] => lastErrorTime' = lastErrorTime]_vars

\* Inside the window of a read failure, an UpsertNode has called the upstream
\* and been rejected; the recorded failure is still the read's.
C13_Witness ==
    \E g \in Procs :
        /\ calls[g].pc = "done" /\ calls[g].op = "UpsertNode"
        /\ calls[g].upcalls = 1 /\ calls[g].ans[1].err
        /\ lastErrorTime = StartTime
        /\ InWindow

\* C14: a cache slot changes only in the locked write of a read whose
\* upstream attempt succeeded; no step of a read whose attempt has failed
\* or was suppressed changes a slot of any category.
C14_FailureKeepsSlots ==
    [][/\ slots' # slots =>
             \E g \in Procs :
                 /\ Steps(g, "write", "unlock")
                 /\ calls[g].called /\ ~calls[g].ans[1].err
       /\ \A g \in Procs :
             /\ calls[g].pc # "idle"
             /\ calls[g].op \in ReadOps
             /\ calls'[g] # calls[g]
             /\ FailedOrSuppressed(calls'[g])
             => slots' = slots]_vars

\* A GetDomainName whose upstream call failed has returned, and the slot
\* still holds a domain name.
C14_Witness ==
    \E g \in Procs :
        /\ calls[g].pc = "done" /\ calls[g].op = "GetDomainName"
        /\ calls[g].called /\ calls[g].ans[1].err
        /\ domainName \in DomainNames

\* C15: a call makes at most one upstream call; every call that has entered
\* its method returns, whatever the other goroutine does: none waits for
\* the mutex for ever.
C15_CallsTerminate ==
    /\ [](\A g \in Procs : calls[g].pc # "idle" => calls[g].upcalls <= 1)
    /\ \A g \in Procs : calls[g].pc # "idle" ~> calls[g].pc = "done"

\* Two reads of one category have both returned, each after one upstream
\* call and a write under the mutex, which is free again.
C15_Witness ==
    /\ \A g \in Procs :
          /\ calls[g].pc = "done" /\ calls[g].op = "GetProxies"
          /\ calls[g].upcalls = 1 /\ calls[g].wseq > 0
    /\ mutex = "free"

\* Both goroutines have made their locked write, to the same cache field.
BothWrote(g, h) ==
    /\ g # h
    /\ g \in Written /\ h \in Written
    /\ SlotKey(calls[g].op, calls[g].arg) = SlotKey(calls[h].op, calls[h].arg)

\* C16: when two concurrent reads of one category both succeed upstream, the
\* slot holds, after both writes, the value of the read whose locked write
\* came last, whichever upstream call was issued first.
C16_LastWriterWins ==
    \A g, h \in Procs :
        BothWrote(g, h) /\ calls[g].wseq > calls[h].wseq =>
            Cached(calls[g].op, calls[g].arg) = calls[g].ans[1].val

\* The read whose upstream call was issued first, with the older value,
\* wrote last: the slot holds that older value.
C16_Witness ==
    \E g, h \in Procs :
        /\ BothWrote(g, h)
        /\ calls[g].wseq > calls[h].wseq /\ calls[g].seq < calls[h].seq
        /\ calls[g].ans[1].val # calls[h].ans[1].val
        /\ Cached(calls[g].op, calls[g].arg) = calls[g].ans[1].val
        /\ calls[g].pc = "done" /\ calls[h].pc = "done"

\* The caller is entering the read inv.
Issuing(inv) ==
    /\ calls[Caller].pc = "gate"
    /\ calls[Caller].op = inv[1] /\ calls[Caller].arg = inv[2]

\* The read inv has called the upstream and returned the fresh value, which
\* is also what the slot holds.
Refreshed(inv) ==
    /\ calls[Caller].pc = "done"
    /\ calls[Caller].op = inv[1] /\ calls[Caller].arg = inv[2]
    /\ calls[Caller].called
    /\ calls[Caller].val = <<FreshValue(inv[1], inv[2])>>
    /\ Cached(inv[1], inv[2]) = FreshValue(inv[1], inv[2])

\* C17: with an upstream that succeeds on every call and returns v for a
\* category, time advancing and reads of the category issued again and again,
\* eventually a read calls the upstream, the slot is v and the read returns v.
C17_Recovery ==
    \A inv \in RecoveryReads : []<>Issuing(inv) => <>Refreshed(inv)

\* A GetUsers issued after the window of the failure at StartTime has
\* refreshed the slot, with that failure still the recorded one.
C17_Witness ==
    /\ Refreshed(<<"GetUsers", <<>>>>)
    /\ lastErrorTime = StartTime
    /\ now >= lastErrorTime + backoffDuration

\* C18 (as stated): with concurrent readers, no caller makes its upstream
\* read call while the clock is inside the window of the recorded failure.
C18_NoCallInWindow ==
    [][\A g \in Procs :
          calls[g].pc = "upstream" /\ calls'[g].pc # "upstream" => ~InWindow]_vars

\* C18 (amended): a caller is at its upstream read call only if the
\* lastErrorTime it read at its own gate is at least backoffDuration old; a
\* failure recorded after that read does not stop the call.
C18_GateOnValueRead ==
    \A g \in Procs :
        calls[g].pc = "upstream" => calls[g].t + backoffDuration <= now

\* A caller that passed its gate is about to call the upstream inside the
\* window of a failure that another caller recorded after the gate.
C18_Witness ==
    \E g \in Procs :
        /\ calls[g].pc = "upstream"
        /\ calls[g].t + backoffDuration <= now
        /\ lastErrorTime > calls[g].t
        /\ InWindow


\* C19: a GetCertAuthorities(kind, loadKeys = false) call returns no
\* authority that carries signing keys, whatever earlier calls asked for.
C19_KeysOnlyOnRequest ==
    /\ calls[Caller].pc = "done"
    /\ calls[Caller].op = "GetCertAuthorities"
    /\ ~calls[Caller].arg[2]
    => \A ca \in Range(calls[Caller].val[1]) : ~ca.HasKeys

====
